---- MODULE Spec2Model ----
(***************************************************************************)
(* Model of the fixed-window rate limiter (package main, limiter file):    *)
(* the Limiter struct, its methods, the startWindow goroutine started by   *)
(* NewLimiter, and the goroutines that call the methods concurrently.      *)
(*                                                                         *)
(* Every statement of a method that touches shared state is one step, so   *)
(* that goroutines interleave between statements as the Go scheduler lets  *)
(* them.  sync.Mutex is a boolean (it has no owner in Go); the goroutine   *)
(* inside a critical section is known from its program counter.  The       *)
(* unbuffered doneChan is a rendezvous between a sender blocked in         *)
(* Shutdown and the startWindow goroutine waiting in its select.           *)
(*                                                                         *)
(* A calling goroutine makes one call (as a request handler does) and then *)
(* keeps its result: "ok", "err", "clr_done" or "shut_done".  The test of  *)
(* IncrementRequestsUsed reads usedRequests without the lock.  Go lets     *)
(* such a read of a word observe any write it races with; the read is the  *)
(* goroutine's first step, so observing an older write is the same as      *)
(* taking that step earlier, which the interleaving already allows.        *)
(*                                                                         *)
(* Spec and LiveSpec are the limiters under arbitrary concurrent callers,  *)
(* with main waiting for its signal.  ProcSpec and ProcLiveSpec are the    *)
(* process as main.go runs it: init, the server, the registration loop,    *)
(* the request handlers and the shutdown sequence.                         *)
(***************************************************************************)
EXTENDS Integers, FiniteSets

\* ------------------------------------------------------------- bounds
NumCallers == 2     \* goroutines that each make one call on a limiter
MaxAllowed == 1     \* largest allowedRequests passed to NewLimiter
NumHandlers == 1    \* goroutines of the process besides main and the schedulers

\* time.Millisecond in nanoseconds, the unit of time.Duration
Millisecond == 1000000

\* The clients main registers are client-1, client-2, ...; the first two are
\* modelled.  Limiters share no state, so the state space is the product of
\* theirs.
Limiters == {1, 2}
Callers == 1..NumCallers

\* The callers that, in the process, serve a request or call
\* InitClientRateLimiterMap again.
Handlers == 1..NumHandlers

VARIABLES
    usedRequests,       \* Limiter.usedRequests, per limiter
    allowedRequests,    \* Limiter.allowedRequests, per limiter
    timeframeInterval,  \* Limiter.timeframeInterval, per limiter (ns)
    mu,                 \* the embedded sync.Mutex: TRUE when locked
    sched,              \* position of the limiter's startWindow goroutine
    ticker,             \* the time.Ticker of startWindow
    pc,                 \* position of each calling goroutine
    target,             \* the limiter (receiver) of the goroutine's call
    reg,                \* the usedRequests a caller has loaded for its increment
    lastClear,          \* history: what the latest Clear write overwrote
    overlapped,         \* history: two IncrementRequestsUsed calls overlapped
    clientRateLimiterMap,  \* the registry: nil or the set of registered clients
    server,             \* the HTTP server: "off", "serving", "closing", "closed"
    mainpc,             \* position of the main goroutine
    mainI,              \* main's loop variable: the client it works on
    mainShut            \* clients whose Shutdown call by main has returned

vars == <<usedRequests, allowedRequests, timeframeInterval, mu, sched, ticker,
          pc, target, reg, lastClear, overlapped,
          clientRateLimiterMap, server, mainpc, mainI, mainShut>>

limiterVars == <<usedRequests, allowedRequests, timeframeInterval, mu, sched, ticker>>
callerVars == <<pc, target, reg>>
historyVars == <<lastClear, overlapped>>
procVars == <<clientRateLimiterMap, server, mainpc, mainI, mainShut>>

\* The process runs: no goroutine died of a fatal runtime error and main has
\* not returned.  Every goroutine steps only while the process runs.
Running == mainpc # "done" /\ \A c \in Callers : pc[c] # "fatal"

\* ------------------------------------------------------------ queries
GetRequestsAvailable(l) == allowedRequests[l] - usedRequests[l]

GetRequestLimit(l) == allowedRequests[l]

GetTimeframeInterval(l) == timeframeInterval[l]

\* ------------------------------------------------------- construction
\* NewLimiter(allowedRequests, timeframeMilliseconds): the struct literal.
NewLimiter(a, ms) ==
    [usedRequests |-> 0, allowedRequests |-> a,
     timeframeInterval |-> ms * Millisecond]

\* go l.startWindow(): the goroutine is created by NewLimiter; it makes its
\* ticker and waits in the select.
StartWindowInit == [l \in Limiters |-> "select"]

\* The state after limiter l was made by NewLimiter(a[l], l) and registered,
\* no call has been made yet, and main waits for its signal.
Constructed(a) ==
    /\ usedRequests = [l \in Limiters |-> NewLimiter(a[l], l).usedRequests]
    /\ allowedRequests = [l \in Limiters |-> NewLimiter(a[l], l).allowedRequests]
    /\ timeframeInterval = [l \in Limiters |-> NewLimiter(a[l], l).timeframeInterval]
    /\ mu = [l \in Limiters |-> FALSE]
    /\ sched = StartWindowInit
    /\ ticker = [l \in Limiters |-> "running"]
    /\ pc = [c \in Callers |-> "idle"]
    /\ target = [c \in Callers |-> 0]
    /\ reg = [c \in Callers |-> 0]
    /\ lastClear = [l \in Limiters |-> "none"]
    /\ overlapped = [l \in Limiters |-> FALSE]
    /\ clientRateLimiterMap = [isNil |-> FALSE, keys |-> Limiters]
    /\ server = "serving"
    /\ mainpc = "wait"
    /\ mainI = 0
    /\ mainShut = {}

\* NewLimiter takes any quota: it is drawn from 0..MaxAllowed.
Init == \E a \in [Limiters -> 0..MaxAllowed] : Constructed(a)

\* The limiters as main makes them: client-i by NewLimiter(i, i).
MainInit == Constructed([l \in Limiters |-> l])

\* ---------------------------------------------------- history, derived
\* The callers whose call on limiter l is at one of the positions ps.
At(l, ps) == {c \in Callers : target[c] = l /\ pc[c] \in ps}

\* IncrementRequestsUsed calls on l that returned nil / ErrTooManyRequests.
nOk(l) == Cardinality(At(l, {"ok"}))

nErr(l) == Cardinality(At(l, {"err"}))

\* Calls on l that passed the test and have not returned.
IncInFlight(l) == At(l, {"inc_lock", "inc_add", "inc_unlock"})

\* ------------------------------------------------- sync.Mutex, fields
\* Variant: Lock returns whether or not the mutex is held.
LockNoExclusion(l) == mu' = [mu EXCEPT ![l] = TRUE]

\* Variant: Lock is granted only while the scheduler of the limiter runs.
LockNeedsScheduler(l) ==
    /\ ~mu[l]
    /\ sched[l] \notin {"stopping", "stopped"}
    /\ mu' = [mu EXCEPT ![l] = TRUE]

\* Variant: one mutex guards all limiters.
LockGlobal(l) ==
    /\ \A k \in Limiters : ~mu[k]
    /\ mu' = [mu EXCEPT ![l] = TRUE]

\* l.Lock(): blocks while the mutex is held.
Lock(l) == ~mu[l] /\ mu' = [mu EXCEPT ![l] = TRUE]

\* l.Unlock()
Unlock(l) == mu' = [mu EXCEPT ![l] = FALSE]

\* Variant: the test lets one request too many through.
QuotaExhaustedOffByOne(l) == usedRequests[l] > allowedRequests[l]

\* The test of IncrementRequestsUsed, made before the lock is taken.
QuotaExhausted(l) == usedRequests[l] = allowedRequests[l]

\* l.usedRequests++ is a load, an addition and a store: the store writes
\* the loaded value v plus one.
IncrementWrite(l, v) == usedRequests' = [usedRequests EXCEPT ![l] = v + 1]

\* Variant: the reset writes the quota instead of zero.
ClearWriteToLimit(l) ==
    /\ usedRequests' = [usedRequests EXCEPT ![l] = allowedRequests[l]]
    /\ lastClear' = [lastClear EXCEPT ![l] = IF usedRequests[l] > 0 THEN "pos" ELSE "zero"]

\* Variant: the reset gives back one request.
ClearWriteDecrement(l) ==
    /\ usedRequests' = [usedRequests EXCEPT ![l] = IF @ > 0 THEN @ - 1 ELSE 0]
    /\ lastClear' = [lastClear EXCEPT ![l] = IF usedRequests[l] > 0 THEN "pos" ELSE "zero"]

\* l.usedRequests = 0
ClearWrite(l) ==
    /\ usedRequests' = [usedRequests EXCEPT ![l] = 0]
    /\ lastClear' = [lastClear EXCEPT ![l] = IF usedRequests[l] > 0 THEN "pos" ELSE "zero"]

\* ------------------------------------------- IncrementRequestsUsed
\* Variant: the test is made with the lock taken, and the failing return
\* leaves without unlocking.
IncCheckLeavesLocked(c, l) ==
    /\ pc[c] = "idle"
    /\ target' = [target EXCEPT ![c] = l]
    /\ UNCHANGED reg
    /\ IF QuotaExhausted(l)
          THEN /\ Lock(l)
               /\ pc' = [pc EXCEPT ![c] = "err"]
          ELSE /\ pc' = [pc EXCEPT ![c] = "inc_lock"]
               /\ UNCHANGED mu
    /\ overlapped' = [overlapped EXCEPT ![l] = @ \/ IncInFlight(l) # {}]
    /\ UNCHANGED <<usedRequests, allowedRequests, timeframeInterval, sched, ticker,
                   lastClear>>
    /\ UNCHANGED procVars

\* The call and its first statement: the unlocked test.  When the quota is
\* used up the call returns ErrTooManyRequests at once.
IncCheck(c, l) ==
    /\ pc[c] = "idle"
    /\ target' = [target EXCEPT ![c] = l]
    /\ UNCHANGED reg
    /\ IF QuotaExhausted(l)
          THEN pc' = [pc EXCEPT ![c] = "err"]
          ELSE pc' = [pc EXCEPT ![c] = "inc_lock"]
    /\ overlapped' = [overlapped EXCEPT ![l] = @ \/ IncInFlight(l) # {}]
    /\ UNCHANGED <<limiterVars, lastClear>>
    /\ UNCHANGED procVars

\* l.Lock() and the load of l.usedRequests++: with the lock just taken, the
\* load that follows it is taken in the same step.
IncLock(c) ==
    /\ pc[c] = "inc_lock"
    /\ Lock(target[c])
    /\ reg' = [reg EXCEPT ![c] = usedRequests[target[c]]]
    /\ pc' = [pc EXCEPT ![c] = "inc_add"]
    /\ UNCHANGED <<usedRequests, allowedRequests, timeframeInterval, sched, ticker,
                   target, historyVars>>
    /\ UNCHANGED procVars

\* The store of l.usedRequests++; the loaded value is dead afterwards.
IncAdd(c) ==
    /\ pc[c] = "inc_add"
    /\ IncrementWrite(target[c], reg[c])
    /\ reg' = [reg EXCEPT ![c] = 0]
    /\ pc' = [pc EXCEPT ![c] = "inc_unlock"]
    /\ UNCHANGED <<allowedRequests, timeframeInterval, mu, sched, ticker,
                   target, historyVars>>
    /\ UNCHANGED procVars

\* l.Unlock(); return nil
IncUnlock(c) ==
    /\ pc[c] = "inc_unlock"
    /\ Unlock(target[c])
    /\ pc' = [pc EXCEPT ![c] = "ok"]
    /\ UNCHANGED <<usedRequests, allowedRequests, timeframeInterval, sched, ticker,
                   target, reg, historyVars>>
    /\ UNCHANGED procVars

\* ------------------------------------------------- Clear, by a caller
CallClear(c, l) ==
    /\ pc[c] = "idle"
    /\ pc' = [pc EXCEPT ![c] = "clr_lock"]
    /\ target' = [target EXCEPT ![c] = l]
    /\ UNCHANGED reg
    /\ UNCHANGED <<limiterVars, historyVars>>
    /\ UNCHANGED procVars

ClearLock(c) ==
    /\ pc[c] = "clr_lock"
    /\ Lock(target[c])
    /\ pc' = [pc EXCEPT ![c] = "clr_write"]
    /\ UNCHANGED <<usedRequests, allowedRequests, timeframeInterval, sched, ticker,
                   target, reg, historyVars>>
    /\ UNCHANGED procVars

ClearSet(c) ==
    /\ pc[c] = "clr_write"
    /\ ClearWrite(target[c])
    /\ pc' = [pc EXCEPT ![c] = "clr_unlock"]
    /\ UNCHANGED <<allowedRequests, timeframeInterval, mu, sched, ticker,
                   target, reg, overlapped>>
    /\ UNCHANGED procVars

ClearUnlock(c) ==
    /\ pc[c] = "clr_unlock"
    /\ Unlock(target[c])
    /\ pc' = [pc EXCEPT ![c] = "clr_done"]
    /\ UNCHANGED <<usedRequests, allowedRequests, timeframeInterval, sched, ticker,
                   target, reg, historyVars>>
    /\ UNCHANGED procVars

\* ----------------------------------------------------------- Shutdown
\* l.doneChan <- struct{}{}: the sender blocks on the unbuffered channel.
CallShutdown(c, l) ==
    /\ pc[c] = "idle"
    /\ pc' = [pc EXCEPT ![c] = "shut_send"]
    /\ target' = [target EXCEPT ![c] = l]
    /\ UNCHANGED reg
    /\ UNCHANGED <<limiterVars, historyVars>>
    /\ UNCHANGED procVars

\* Variant: the signal is received and the loop goes on.
DoneReceiveKeepsLooping(l) == sched[l] = "select" /\ UNCHANGED sched

\* Variant: the select takes the signal only when no tick can come.
DoneReceiveTickFirst(l) ==
    /\ sched[l] = "select"
    /\ ticker[l] # "running"
    /\ sched' = [sched EXCEPT ![l] = "stopping"]

\* The rendezvous: startWindow's select takes case <-l.doneChan, and the
\* send, hence Shutdown, returns.
DoneReceive(l) == sched[l] = "select" /\ sched' = [sched EXCEPT ![l] = "stopping"]

\* Variant: the hand-off also resets the counter of the limiter.
HandoffResets(c) ==
    /\ pc[c] = "shut_send"
    /\ DoneReceive(target[c])
    /\ pc' = [pc EXCEPT ![c] = "shut_done"]
    /\ usedRequests' = [usedRequests EXCEPT ![target[c]] = 0]
    /\ UNCHANGED <<allowedRequests, timeframeInterval, mu, ticker,
                   target, reg, historyVars>>
    /\ UNCHANGED procVars

Handoff(c) ==
    /\ pc[c] = "shut_send"
    /\ DoneReceive(target[c])
    /\ pc' = [pc EXCEPT ![c] = "shut_done"]
    /\ UNCHANGED <<usedRequests, allowedRequests, timeframeInterval, mu, ticker,
                   target, reg, historyVars>>
    /\ UNCHANGED procVars

\* -------------------------------------------------------- startWindow
\* case <-ticker.C: a tick is delivered while the ticker runs; the goroutine
\* calls l.Clear().
SchedTick(l) ==
    /\ Running
    /\ sched[l] = "select"
    /\ ticker[l] = "running"
    /\ sched' = [sched EXCEPT ![l] = "clr_lock"]
    /\ UNCHANGED <<usedRequests, allowedRequests, timeframeInterval, mu, ticker,
                   callerVars, historyVars>>
    /\ UNCHANGED procVars

\* Variant: the scheduler's Clear goes on to its write without the lock.
SchedClearLockSkipped(l) ==
    /\ Running
    /\ sched[l] = "clr_lock"
    /\ sched' = [sched EXCEPT ![l] = "clr_write"]
    /\ UNCHANGED <<usedRequests, allowedRequests, timeframeInterval, mu, ticker,
                   callerVars, historyVars>>
    /\ UNCHANGED procVars

SchedClearLock(l) ==
    /\ Running
    /\ sched[l] = "clr_lock"
    /\ Lock(l)
    /\ sched' = [sched EXCEPT ![l] = "clr_write"]
    /\ UNCHANGED <<usedRequests, allowedRequests, timeframeInterval, ticker,
                   callerVars, historyVars>>
    /\ UNCHANGED procVars

SchedClearSet(l) ==
    /\ Running
    /\ sched[l] = "clr_write"
    /\ ClearWrite(l)
    /\ sched' = [sched EXCEPT ![l] = "clr_unlock"]
    /\ UNCHANGED <<allowedRequests, timeframeInterval, mu, ticker,
                   callerVars, overlapped>>
    /\ UNCHANGED procVars

\* Variant: the tick case returns from startWindow.
AfterTickReturns == "stopped"

\* Clear returns and the for loop goes back to the select.
AfterTick == "select"

SchedClearUnlock(l) ==
    /\ Running
    /\ sched[l] = "clr_unlock"
    /\ Unlock(l)
    /\ sched' = [sched EXCEPT ![l] = AfterTick]
    /\ UNCHANGED <<usedRequests, allowedRequests, timeframeInterval, ticker,
                   callerVars, historyVars>>
    /\ UNCHANGED procVars

\* Variant: startWindow returns without stopping its ticker.
SchedStopLeavesTicker(l) ==
    /\ Running
    /\ sched[l] = "stopping"
    /\ sched' = [sched EXCEPT ![l] = "stopped"]
    /\ UNCHANGED <<usedRequests, allowedRequests, timeframeInterval, mu, ticker,
                   callerVars, historyVars>>
    /\ UNCHANGED procVars

\* ticker.Stop(); return
SchedStop(l) ==
    /\ Running
    /\ sched[l] = "stopping"
    /\ ticker' = [ticker EXCEPT ![l] = "stopped"]
    /\ sched' = [sched EXCEPT ![l] = "stopped"]
    /\ UNCHANGED <<usedRequests, allowedRequests, timeframeInterval, mu,
                   callerVars, historyVars>>
    /\ UNCHANGED procVars

\* ----------------------------------------------------------- registry
\* make(map[string]RateLimiter): a map that is not nil and has no entry.
\* The key "client-i" is written i.
MakeMap == [isNil |-> FALSE, keys |-> {}]

\* Variant: the map is made anew on every call.
InitClientRateLimiterMapRemakes == [ret |-> "nil", map |-> MakeMap]

\* InitClientRateLimiterMap: what it returns and what it leaves the map as.
InitClientRateLimiterMap ==
    IF clientRateLimiterMap.isNil
    THEN [ret |-> "nil", map |-> MakeMap]
    ELSE [ret |-> "ErrClientMapExists", map |-> clientRateLimiterMap]

\* A call of InitClientRateLimiterMap by a goroutine of the running process;
\* package initialisation is over before any such goroutine exists.
CallInitMap(c) ==
    /\ Running
    /\ mainpc # "init"
    /\ pc[c] = "idle"
    /\ clientRateLimiterMap' = InitClientRateLimiterMap.map
    /\ pc' = [pc EXCEPT ![c] =
                 IF InitClientRateLimiterMap.ret = "nil" THEN "init_ok" ELSE "init_err"]
    /\ UNCHANGED <<limiterVars, target, reg, historyVars, server, mainpc, mainI, mainShut>>

\* --------------------------------------------------------------- main
\* func init(): InitClientRateLimiterMap(), its result dropped.
MainPkgInit ==
    /\ mainpc = "init"
    /\ clientRateLimiterMap' = InitClientRateLimiterMap.map
    /\ mainpc' = "start"
    /\ UNCHANGED <<limiterVars, callerVars, historyVars, server, mainI, mainShut>>

\* srv := InitServer(nil); go StartServer(srv): from here on the server
\* accepts requests.  Then i := 1.
MainStartServer ==
    /\ mainpc = "start"
    /\ server' = "serving"
    /\ mainI' = 1
    /\ mainpc' = "new"
    /\ UNCHANGED <<limiterVars, callerVars, historyVars, clientRateLimiterMap, mainShut>>

\* The right-hand side of the assignment in the loop: NewLimiter(i, i), which
\* starts the limiter's scheduler.
MainNewLimiter ==
    /\ Running
    /\ mainpc = "new"
    /\ usedRequests' = [usedRequests EXCEPT ![mainI] = NewLimiter(mainI, mainI).usedRequests]
    /\ allowedRequests' =
           [allowedRequests EXCEPT ![mainI] = NewLimiter(mainI, mainI).allowedRequests]
    /\ timeframeInterval' =
           [timeframeInterval EXCEPT ![mainI] = NewLimiter(mainI, mainI).timeframeInterval]
    /\ sched' = [sched EXCEPT ![mainI] = StartWindowInit[mainI]]
    /\ ticker' = [ticker EXCEPT ![mainI] = "running"]
    /\ mainpc' = "put"
    /\ UNCHANGED <<mu, callerVars, historyVars, clientRateLimiterMap, server, mainI, mainShut>>

\* clientRateLimiterMap[key] = ...: the map write begins.
MainPutBegin ==
    /\ Running
    /\ mainpc = "put"
    /\ mainpc' = "putting"
    /\ UNCHANGED <<limiterVars, callerVars, historyVars, clientRateLimiterMap, server,
                   mainI, mainShut>>

\* The map write ends; i++ and the loop test i < 11, here i <= the last
\* limiter.
MainPutEnd ==
    /\ Running
    /\ mainpc = "putting"
    /\ clientRateLimiterMap' = [clientRateLimiterMap EXCEPT !.keys = @ \cup {mainI}]
    /\ mainI' = mainI + 1
    /\ mainpc' = IF mainI + 1 \in Limiters THEN "new" ELSE "wait"
    /\ UNCHANGED <<limiterVars, callerVars, historyVars, server, mainShut>>

\* <-done: SIGINT or SIGTERM arrives while main waits.
MainSignal ==
    /\ Running
    /\ mainpc = "wait"
    /\ mainpc' = "srv_shutdown"
    /\ UNCHANGED <<limiterVars, callerVars, historyVars, clientRateLimiterMap, server,
                   mainI, mainShut>>

\* ShutdownServer: srv.Shutdown closes the listener, no request is accepted
\* any more.
MainCloseServer ==
    /\ Running
    /\ mainpc = "srv_shutdown"
    /\ server' = "closing"
    /\ mainpc' = "drain"
    /\ UNCHANGED <<limiterVars, callerVars, historyVars, clientRateLimiterMap, mainI, mainShut>>

\* The requests a handler is serving.
InFlightRequests == {c \in Callers : pc[c] \in {"lookup", "read"}}

\* srv.Shutdown returns when the requests in flight are served.
MainDrained ==
    /\ Running
    /\ mainpc = "drain"
    /\ InFlightRequests = {}
    /\ server' = "closed"
    /\ mainpc' = "range"
    /\ UNCHANGED <<limiterVars, callerVars, historyVars, clientRateLimiterMap, mainI, mainShut>>

\* Variant: the loop over the clients ends after the first client.
MainRangeBreaks ==
    /\ Running
    /\ mainpc = "range"
    /\ IF mainShut # {}
       THEN mainpc' = "done" /\ UNCHANGED mainI
       ELSE \E l \in clientRateLimiterMap.keys : mainI' = l /\ mainpc' = "shut_send"
    /\ UNCHANGED <<limiterVars, callerVars, historyVars, clientRateLimiterMap, server, mainShut>>

\* for _, client := range clientRateLimiterMap: the next client, in the
\* order the map iteration yields, each entry once; client.Shutdown() sends
\* on its doneChan.  After the last entry main returns.
MainRange ==
    /\ Running
    /\ mainpc = "range"
    /\ IF clientRateLimiterMap.keys \ mainShut = {}
       THEN mainpc' = "done" /\ UNCHANGED mainI
       ELSE \E l \in clientRateLimiterMap.keys \ mainShut :
                mainI' = l /\ mainpc' = "shut_send"
    /\ UNCHANGED <<limiterVars, callerVars, historyVars, clientRateLimiterMap, server, mainShut>>

\* The rendezvous of main's send with the scheduler of the client.
MainHandoff ==
    /\ Running
    /\ mainpc = "shut_send"
    /\ DoneReceive(mainI)
    /\ mainShut' = mainShut \cup {mainI}
    /\ mainpc' = "range"
    /\ UNCHANGED <<usedRequests, allowedRequests, timeframeInterval, mu, ticker,
                   callerVars, historyVars, clientRateLimiterMap, server, mainI>>

\* ------------------------------------------------ getAvailableRequests
\* The client ids a request carries: "client-0" is never registered.
ClientIds == {0} \cup Limiters

\* The server accepts a request and runs the handler in its own goroutine.
HandlerAccept(c, id) ==
    /\ Running
    /\ server = "serving"
    /\ pc[c] = "idle"
    /\ pc' = [pc EXCEPT ![c] = "lookup"]
    /\ target' = [target EXCEPT ![c] = id]
    /\ UNCHANGED reg
    /\ UNCHANGED <<limiterVars, historyVars, procVars>>

\* What clientRateLimiterMap[clientId] can yield.  The handler takes no lock:
\* a lookup while main writes the map is a data race, which the Go runtime
\* may stop with a fatal error and which otherwise finds the entry or not.
LookupOutcomes(id) ==
    IF mainpc = "putting"
    THEN {"fatal", "notfound"}
         \cup (IF id \in clientRateLimiterMap.keys \cup {mainI} THEN {"read"} ELSE {})
    ELSE IF id \in clientRateLimiterMap.keys THEN {"read"} ELSE {"notfound"}

\* limiter, ok := clientRateLimiterMap[clientId]; 404 when !ok.
HandlerLookup(c) ==
    /\ Running
    /\ pc[c] = "lookup"
    /\ \E r \in LookupOutcomes(target[c]) : pc' = [pc EXCEPT ![c] = r]
    /\ UNCHANGED <<limiterVars, target, reg, historyVars, procVars>>

\* The handler reads the limit, the available requests and the interval of
\* the limiter and writes the response.
HandlerRespond(c) ==
    /\ Running
    /\ pc[c] = "read"
    /\ pc' = [pc EXCEPT ![c] = "served"]
    /\ UNCHANGED <<limiterVars, target, reg, historyVars, procVars>>

\* ------------------------------------------------------ specification
Next ==
    \/ \E c \in Callers, l \in Limiters : IncCheck(c, l)
    \/ \E c \in Callers : IncLock(c)
    \/ \E c \in Callers : IncAdd(c)
    \/ \E c \in Callers : IncUnlock(c)
    \/ \E c \in Callers, l \in Limiters : CallClear(c, l)
    \/ \E c \in Callers : ClearLock(c)
    \/ \E c \in Callers : ClearSet(c)
    \/ \E c \in Callers : ClearUnlock(c)
    \/ \E c \in Callers, l \in Limiters : CallShutdown(c, l)
    \/ \E c \in Callers : Handoff(c)
    \/ \E l \in Limiters : SchedTick(l)
    \/ \E l \in Limiters : SchedClearLock(l)
    \/ \E l \in Limiters : SchedClearSet(l)
    \/ \E l \in Limiters : SchedClearUnlock(l)
    \/ \E l \in Limiters : SchedStop(l)

Spec == Init /\ [][Next]_vars

\* Scheduling the Go runtime provides: a runnable goroutine runs, the ticker
\* keeps delivering ticks, a goroutine waiting in Lock gets the mutex
\* (sync.Mutex hands the lock to a starving waiter), and a select with
\* several ready cases picks each of them again and again: the step a
\* goroutine is at is taken if it can be taken again and again.  A goroutine
\* is at one position at a time, so this is stated on the disjunction of its
\* steps; each caller makes one call, a bounded number of steps, so it is
\* stated on all callers together.  Whether a caller makes a call at all is
\* left open.
Fairness ==
    /\ \A l \in Limiters :
          SF_vars(SchedTick(l) \/ SchedClearLock(l) \/ SchedClearSet(l)
                  \/ SchedClearUnlock(l) \/ SchedStop(l))
    /\ SF_vars(\E c \in Callers :
                  IncLock(c) \/ IncAdd(c) \/ IncUnlock(c)
                  \/ ClearLock(c) \/ ClearSet(c) \/ ClearUnlock(c) \/ Handoff(c))

\* The liveness claims are about the scheduler and Shutdown, not about the
\* quota: they are checked on the limiters main makes.
LiveSpec == MainInit /\ [][Next]_vars /\ Fairness

\* -------------------------------------------------------- the process
\* Before package initialisation: the map is nil, no limiter is made, the
\* server is not started.
ProcInit ==
    /\ usedRequests = [l \in Limiters |-> 0]
    /\ allowedRequests = [l \in Limiters |-> 0]
    /\ timeframeInterval = [l \in Limiters |-> 0]
    /\ mu = [l \in Limiters |-> FALSE]
    /\ sched = [l \in Limiters |-> "unborn"]
    /\ ticker = [l \in Limiters |-> "none"]
    /\ pc = [c \in Callers |-> "idle"]
    /\ target = [c \in Callers |-> 0]
    /\ reg = [c \in Callers |-> 0]
    /\ lastClear = [l \in Limiters |-> "none"]
    /\ overlapped = [l \in Limiters |-> FALSE]
    /\ clientRateLimiterMap = [isNil |-> TRUE, keys |-> {}]
    /\ server = "off"
    /\ mainpc = "init"
    /\ mainI = 0
    /\ mainShut = {}

\* The goroutines of the process as main.go runs it: main, the schedulers
\* of the limiters it makes, the request handlers, and goroutines that call
\* InitClientRateLimiterMap again.
ProcNext ==
    \/ MainPkgInit
    \/ MainStartServer
    \/ MainNewLimiter
    \/ MainPutBegin
    \/ MainPutEnd
    \/ MainSignal
    \/ MainCloseServer
    \/ MainDrained
    \/ MainRange
    \/ MainHandoff
    \/ \E c \in Handlers : CallInitMap(c)
    \/ \E c \in Handlers, id \in ClientIds : HandlerAccept(c, id)
    \/ \E c \in Handlers : HandlerLookup(c)
    \/ \E c \in Handlers : HandlerRespond(c)
    \/ \E l \in Limiters : SchedTick(l)
    \/ \E l \in Limiters : SchedClearLock(l)
    \/ \E l \in Limiters : SchedClearSet(l)
    \/ \E l \in Limiters : SchedClearUnlock(l)
    \/ \E l \in Limiters : SchedStop(l)

ProcSpec == ProcInit /\ [][ProcNext]_vars

\* Scheduling of the process: main and the handlers run when they can, the
\* schedulers as in Fairness, and main's send on doneChan is taken by a
\* select that is ready for it again and again.  Whether a signal or a
\* request arrives is left open.
ProcFairness ==
    /\ SF_vars(MainPkgInit \/ MainStartServer \/ MainNewLimiter \/ MainPutBegin
               \/ MainPutEnd \/ MainCloseServer \/ MainDrained \/ MainRange
               \/ MainHandoff)
    /\ \A l \in Limiters :
          SF_vars(SchedTick(l) \/ SchedClearLock(l) \/ SchedClearSet(l)
                  \/ SchedClearUnlock(l) \/ SchedStop(l))
    /\ WF_vars(\E c \in Handlers : HandlerLookup(c) \/ HandlerRespond(c))

ProcLiveSpec == ProcInit /\ [][ProcNext]_vars /\ ProcFairness

\* ------------------------------------------------------------- claims
Stopped(l) == sched[l] \in {"stopping", "stopped"}

\* Shutdown has been called on l: a sender waits on doneChan, or the signal
\* has been taken.
ShutdownInvoked(l) == Stopped(l) \/ At(l, {"shut_send"}) # {}

\* C1: in every reachable state 0 <= usedRequests <= allowedRequests, so
\* GetRequestsAvailable() lies in [0, GetRequestLimit()].
C1_QuotaInvariant ==
    \A l \in Limiters :
        /\ 0 <= usedRequests[l]
        /\ usedRequests[l] <= allowedRequests[l]
        /\ GetRequestsAvailable(l) \in 0..GetRequestLimit(l)

\* C2: when the M callers have each made one IncrementRequestsUsed call on
\* the same limiter with quota N < M and no Clear has happened, exactly N
\* calls returned nil and M - N returned ErrTooManyRequests.
C2_ExactlyNSucceed ==
    \A l \in Limiters :
        ( /\ allowedRequests[l] < NumCallers
          /\ lastClear[l] = "none"
          /\ \A c \in Callers : target[c] = l /\ pc[c] \in {"ok", "err"} )
        => /\ nOk(l) = allowedRequests[l]
           /\ nErr(l) = NumCallers - allowedRequests[l]

\* C3: between a caller's quota test and that caller's own increment no
\* other write to usedRequests of the limiter takes effect.
C3_CheckAndIncrementAtomic ==
    [][\A c \in Callers :
          ( /\ pc[c] \in {"inc_lock", "inc_add"}
            /\ ~(pc[c] = "inc_add" /\ pc'[c] = "inc_unlock") )
          => usedRequests'[target[c]] = usedRequests[target[c]]]_vars

\* C4: with calls made one after the other and no Clear, the first N calls
\* of a limiter with quota N succeed, the next fails, and
\* GetRequestsAvailable() is then 0.
C4_SequentialQuota ==
    \A l \in Limiters :
        (~overlapped[l] /\ lastClear[l] = "none")
        => /\ nOk(l) + Cardinality(IncInFlight(l)) <= allowedRequests[l]
           /\ nErr(l) > 0 => /\ nOk(l) = allowedRequests[l]
                             /\ GetRequestsAvailable(l) = 0

C4_Witness ==
    \E l \in Limiters :
        /\ ~overlapped[l] /\ lastClear[l] = "none"
        /\ allowedRequests[l] >= 1
        /\ nOk(l) = allowedRequests[l]
        /\ nErr(l) >= 1
        /\ GetRequestsAvailable(l) = 0

\* C5: the step in which an IncrementRequestsUsed call returns
\* ErrTooManyRequests is the call's quota test itself: the call never held the
\* lock, and the step changes no field of any limiter, the mutex and the
\* scheduler included.
C5_FailureChangesNothing ==
    [][\A c \in Callers :
          (pc'[c] = "err" /\ pc[c] # "err")
          => /\ pc[c] = "idle"
             /\ UNCHANGED <<usedRequests, allowedRequests, timeframeInterval,
                            mu, sched, ticker>>]_vars

C5_Witness ==
    \E c \in Callers :
        /\ pc[c] = "err"
        /\ allowedRequests[target[c]] >= 1
        /\ usedRequests[target[c]] = allowedRequests[target[c]]
        /\ ~mu[target[c]]

\* C6: in the state in which Clear is about to release the lock, whether a
\* caller or the scheduler runs it, the lock is held, usedRequests is 0 and
\* GetRequestsAvailable() = GetRequestLimit().
C6_ClearResets ==
    \A l \in Limiters :
        (sched[l] = "clr_unlock" \/ At(l, {"clr_unlock"}) # {})
        => /\ mu[l]
           /\ usedRequests[l] = 0
           /\ GetRequestsAvailable(l) = GetRequestLimit(l)

\* A scheduler-driven Clear that overwrote a positive count, and a
\* caller-driven Clear on another limiter, both about to unlock.
C6_Witness ==
    \E l1, l2 \in Limiters :
        /\ sched[l1] = "clr_unlock" /\ lastClear[l1] = "pos"
        /\ GetRequestLimit(l1) > 0
        /\ At(l2, {"clr_unlock"}) # {}

\* C7: while Shutdown has not been called, a state with usedRequests > 0 is
\* followed by one in which the scheduler's own Clear has set it to 0; after
\* that Clear the scheduler waits in its select again.
C7_AutomaticRollover ==
    /\ \A l \in Limiters :
          (usedRequests[l] > 0)
          ~> (ShutdownInvoked(l) \/ (sched[l] = "clr_unlock" /\ usedRequests[l] = 0))
    /\ [][\A l \in Limiters :
             (sched[l] = "clr_unlock" /\ sched'[l] # sched[l]) => sched'[l] = "select"]_vars

C7_Witness ==
    \E l \in Limiters :
        /\ sched[l] = "clr_unlock" /\ lastClear[l] = "pos"
        /\ usedRequests[l] = 0
        /\ ~ShutdownInvoked(l)
        /\ At(l, {"clr_lock", "clr_write", "clr_unlock", "clr_done"}) = {}

\* C8: once a Shutdown call on a limiter has returned, the scheduler is out
\* of its loop for good, and a step that resets a positive usedRequests to 0
\* is the write of a caller's Clear.
C8_NoRolloverAfterShutdown ==
    [][\A l \in Limiters :
          At(l, {"shut_done"}) # {}
          => /\ Stopped(l) /\ sched'[l] \in {"stopping", "stopped"}
             /\ (usedRequests[l] > 0 /\ usedRequests'[l] = 0)
                => \E c \in At(l, {"clr_write"}) : pc'[c] = "clr_unlock"]_vars

\* Usage outstanding after Shutdown returned and the ticker was stopped.
C8_Witness ==
    \E l \in Limiters :
        /\ At(l, {"shut_done"}) # {}
        /\ sched[l] = "stopped" /\ ticker[l] = "stopped"
        /\ usedRequests[l] > 0

\* C9: every Shutdown call, a second one on the same limiter included,
\* eventually returns.
C9_EveryShutdownReturns ==
    \A c \in Callers : (pc[c] = "shut_send") ~> (pc[c] = "shut_done")

\* C10: a Shutdown call on a limiter whose scheduler runs leads to the
\* scheduler taking the signal; the scheduler takes it only in a step in
\* which a blocked Shutdown call returns (so a call that no other Shutdown
\* competes with is the one that returns), and a Shutdown call returns only
\* in the step in which the scheduler takes the signal.
C10_FirstShutdownReturns ==
    /\ \A l \in Limiters :
          (At(l, {"shut_send"}) # {} /\ ~Stopped(l)) ~> Stopped(l)
    /\ [][/\ \A l \in Limiters :
                (~Stopped(l) /\ sched'[l] \in {"stopping", "stopped"})
                => \E s \in At(l, {"shut_send"}) : pc'[s] = "shut_done"
           /\ \A c \in Callers :
                (pc[c] = "shut_send" /\ pc'[c] # "shut_send")
                => /\ pc'[c] = "shut_done"
                   /\ sched[target[c]] = "select"
                   /\ sched'[target[c]] = "stopping"]_vars

\* The hand-off has just happened, after at least one tick was served.
C10_Witness ==
    \E c \in Callers :
        /\ pc[c] = "shut_done"
        /\ sched[target[c]] = "stopping"
        /\ lastClear[target[c]] # "none"

\* C11: the step in which the scheduler takes the shutdown signal (and the
\* Shutdown call returns) and the step in which the scheduler then stops its
\* ticker and returns leave usedRequests, allowedRequests, timeframeInterval
\* and the lock of that limiter as they were, and leave every field of the
\* other limiters as it was.
C11_ShutdownKeepsCounters ==
    [][\A l \in Limiters :
          (sched'[l] # sched[l] /\ sched'[l] \in {"stopping", "stopped"})
          => /\ usedRequests' = usedRequests
             /\ allowedRequests' = allowedRequests
             /\ timeframeInterval' = timeframeInterval
             /\ mu' = mu
             /\ \A k \in Limiters \ {l} : sched'[k] = sched[k] /\ ticker'[k] = ticker[k]]_vars

\* The hand-off has just happened on a limiter with usage outstanding.
C11_Witness ==
    \E c \in Callers :
        /\ pc[c] = "shut_done"
        /\ sched[target[c]] = "stopping"
        /\ usedRequests[target[c]] > 0
        /\ allowedRequests[target[c]] > 0
        /\ timeframeInterval[target[c]] > 0

\* C12: the call of InitClientRateLimiterMap made at package initialisation
\* finds the map nil and leaves it made and empty; no later call succeeds:
\* each returns ErrClientMapExists and leaves the map as it was; and once
\* made the map never becomes nil again nor loses an entry.
C12_InitOnlyOnce ==
    /\ [](\A c \in Callers : pc[c] # "init_ok")
    /\ [][/\ (mainpc = "init" /\ mainpc' # "init")
             => clientRateLimiterMap.isNil /\ clientRateLimiterMap' = MakeMap
          /\ \A c \in Callers :
                (pc[c] = "idle" /\ pc'[c] = "init_err")
                => /\ ~clientRateLimiterMap.isNil
                   /\ clientRateLimiterMap' = clientRateLimiterMap
          /\ ~clientRateLimiterMap.isNil
             => /\ ~clientRateLimiterMap'.isNil
                /\ clientRateLimiterMap.keys \subseteq clientRateLimiterMap'.keys]_vars

\* A later call has returned ErrClientMapExists and every client main
\* registers is in the map.
C12_Witness ==
    \E c \in Callers :
        /\ pc[c] = "init_err"
        /\ ~clientRateLimiterMap.isNil
        /\ clientRateLimiterMap.keys = Limiters

\* C13: from the moment the server is started, so that a handler can read
\* the map, no step writes clientRateLimiterMap.
C13_RegistryReadOnly ==
    [][server # "off" => clientRateLimiterMap' = clientRateLimiterMap]_vars

\* C14: main calls Shutdown on a client only after the server is stopped and
\* its requests are served, on each registered client once; a scheduler takes
\* the signal only from main, after the server is stopped; when main returns
\* Shutdown has returned for every registered client and the scheduler of
\* each has taken the signal; and under fair scheduling a received signal
\* leads to main returning.
C14_ShutdownSequence ==
    /\ (mainpc = "srv_shutdown")
       ~> (mainpc = "done" /\ \A l \in clientRateLimiterMap.keys : Stopped(l))
    /\ [](mainpc = "done"
          => /\ mainShut = clientRateLimiterMap.keys
             /\ \A l \in clientRateLimiterMap.keys : Stopped(l))
    /\ [][/\ (mainpc = "range" /\ mainpc' = "shut_send")
             => /\ server = "closed"
                /\ InFlightRequests = {}
                /\ mainI' \in clientRateLimiterMap.keys \ mainShut
          /\ \A l \in Limiters :
                (~Stopped(l) /\ sched'[l] \in {"stopping", "stopped"})
                => /\ mainpc = "shut_send" /\ mainI = l /\ mainpc' = "range"
                   /\ server = "closed"]_vars

\* main has returned after serving a request: every client is registered and
\* the Shutdown call on each has returned.
C14_Witness ==
    /\ mainpc = "done"
    /\ server = "closed"
    /\ clientRateLimiterMap.keys = Limiters
    /\ mainShut = Limiters
    /\ \A l \in Limiters : Stopped(l)
    /\ \E c \in Callers : pc[c] = "served"

\* C15: the scheduler of a limiter leaves its loop only from the select, in
\* the step in which a sender on doneChan (a Shutdown call) is released; a
\* tick and the Clear it starts always lead back to the select; the ticker
\* is stopped exactly when the scheduler has returned; and a scheduler that
\* has left its loop never is in it again.
C15_SchedulerLifecycle ==
    /\ [](\A l \in Limiters : (sched[l] = "stopped") <=> (ticker[l] = "stopped"))
    /\ [][\A l \in Limiters :
             /\ (~Stopped(l) /\ sched'[l] \in {"stopping", "stopped"})
                => /\ sched[l] = "select" /\ sched'[l] = "stopping"
                   /\ \/ \E s \in At(l, {"shut_send"}) : pc'[s] = "shut_done"
                      \/ mainpc = "shut_send" /\ mainI = l /\ mainpc' = "range"
             /\ (sched[l] \in {"clr_lock", "clr_write", "clr_unlock"})
                => sched'[l] \in {"clr_lock", "clr_write", "clr_unlock", "select"}
             /\ Stopped(l) => sched'[l] \in {"stopping", "stopped"}
             /\ (sched[l] = "stopping" /\ sched'[l] # sched[l])
                => sched'[l] = "stopped" /\ ticker'[l] = "stopped"
             /\ (sched[l] = "stopped") => (sched'[l] = "stopped" /\ ticker'[l] = "stopped")]_vars

\* The scheduler has served ticks, then taken the signal, stopped its ticker
\* and returned.
C15_Witness ==
    \E l \in Limiters :
        /\ sched[l] = "stopped"
        /\ ticker[l] = "stopped"
        /\ lastClear[l] # "none"
        /\ At(l, {"clr_lock", "clr_write", "clr_unlock", "clr_done"}) = {}

\* C16: as long as no Clear has written to a limiter, its usedRequests is the
\* number of IncrementRequestsUsed calls that returned nil plus the number of
\* calls that have incremented and not yet unlocked; so once no call is in
\* flight usedRequests is the number of successes and GetRequestsAvailable()
\* is the limit less that number.
C16_SuccessesCounted ==
    \A l \in Limiters :
        lastClear[l] = "none"
        => /\ usedRequests[l] = nOk(l) + Cardinality(At(l, {"inc_unlock"}))
           /\ IncInFlight(l) = {}
              => /\ usedRequests[l] = nOk(l)
                 /\ GetRequestsAvailable(l) = GetRequestLimit(l) - nOk(l)

\* Two concurrent calls on one limiter have both returned nil, no Clear has
\* run, and both are counted.
C16_Witness ==
    \E l \in Limiters :
        /\ lastClear[l] = "none"
        /\ IncInFlight(l) = {}
        /\ nOk(l) = NumCallers
        /\ usedRequests[l] = NumCallers

\* The tasks between Lock and Unlock on limiter l: callers, and the
\* scheduler, counted as one more.
Holders(l) ==
    Cardinality(At(l, {"inc_add", "inc_unlock", "clr_write", "clr_unlock"}))
    + (IF sched[l] \in {"clr_write", "clr_unlock"} THEN 1 ELSE 0)

\* C17: at most one task is between Lock and Unlock of a limiter, and the
\* mutex is held exactly when one is; a step that changes usedRequests of a
\* limiter is the store of an increment or the write of a Clear, made by the
\* task that holds the lock, which holds it before and after the step.
C17_WritesUnderLock ==
    /\ [](\A l \in Limiters : Holders(l) <= 1 /\ (mu[l] <=> Holders(l) = 1))
    /\ [][\A l \in Limiters :
             usedRequests'[l] # usedRequests[l]
             => /\ mu[l] /\ mu'[l]
                /\ \/ \E c \in At(l, {"inc_add"}) : pc'[c] = "inc_unlock"
                   \/ \E c \in At(l, {"clr_write"}) : pc'[c] = "clr_unlock"
                   \/ sched[l] = "clr_write" /\ sched'[l] = "clr_unlock"]_vars

\* A caller is about to store its increment with the lock held while another
\* caller and the scheduler wait in Lock on the same limiter.
C17_Witness ==
    \E l \in Limiters :
        /\ mu[l]
        /\ At(l, {"inc_add"}) # {}
        /\ At(l, {"inc_lock", "clr_lock"}) # {}
        /\ sched[l] = "clr_lock"

\* C18: whatever the scheduler's state, an idle caller can call
\* IncrementRequestsUsed and Clear; a call waits only in Lock and only while
\* the mutex of its limiter is held; every other step of a call can be
\* taken; the test fails exactly when usedRequests = allowedRequests, the
\* increment adds one, Clear writes 0, the queries are the fields they read;
\* and no step of a call changes the scheduler or its ticker.
C18_SameWhenStopped ==
    /\ [](\A c \in Callers :
            /\ pc[c] = "idle"
               => \A l \in Limiters : ENABLED IncCheck(c, l) /\ ENABLED CallClear(c, l)
            /\ pc[c] = "inc_lock" => (ENABLED IncLock(c) <=> ~mu[target[c]])
            /\ pc[c] = "clr_lock" => (ENABLED ClearLock(c) <=> ~mu[target[c]])
            /\ pc[c] = "inc_add" => ENABLED IncAdd(c)
            /\ pc[c] = "inc_unlock" => ENABLED IncUnlock(c)
            /\ pc[c] = "clr_write" => ENABLED ClearSet(c)
            /\ pc[c] = "clr_unlock" => ENABLED ClearUnlock(c))
    /\ [](\A l \in Limiters :
            /\ GetRequestLimit(l) = allowedRequests[l]
            /\ GetRequestsAvailable(l) = allowedRequests[l] - usedRequests[l]
            /\ GetTimeframeInterval(l) = l * Millisecond)
    /\ [][\A c \in Callers :
             /\ (pc[c] = "idle" /\ pc'[c] \in {"err", "inc_lock"})
                => /\ pc'[c] = "err"
                      <=> usedRequests[target'[c]] = allowedRequests[target'[c]]
                   /\ UNCHANGED <<usedRequests, mu>>
             /\ (pc[c] = "inc_add" /\ pc'[c] = "inc_unlock")
                => usedRequests'[target[c]] = usedRequests[target[c]] + 1
             /\ (pc[c] = "clr_write" /\ pc'[c] = "clr_unlock")
                => usedRequests'[target[c]] = 0
             /\ (pc[c] \in {"idle", "inc_lock", "inc_add", "inc_unlock",
                            "clr_lock", "clr_write", "clr_unlock"}
                 /\ pc'[c] \in {"err", "inc_lock", "inc_add", "inc_unlock", "ok",
                                "clr_lock", "clr_write", "clr_unlock", "clr_done"}
                 /\ pc'[c] # pc[c])
                => UNCHANGED <<sched, ticker, allowedRequests, timeframeInterval>>]_vars

\* After the scheduler has returned and the Shutdown call with it, another
\* call on the same limiter holds the lock and is about to write.
C18_Witness ==
    \E l \in Limiters :
        /\ sched[l] = "stopped"
        /\ At(l, {"shut_done"}) # {}
        /\ At(l, {"inc_add", "clr_write"}) # {}
        /\ mu[l]

\* C19: a step that changes usedRequests, the mutex, the scheduler or the
\* ticker of one limiter changes none of them for any other limiter; a step
\* of a call changes them only for the limiter the call is made on; and a
\* caller or scheduler waiting in Lock on a limiter whose mutex is free can
\* take it, whichever other mutexes are held.
C19_LimitersIndependent ==
    /\ [](/\ \A c \in Callers :
               /\ (pc[c] = "inc_lock" /\ ~mu[target[c]]) => ENABLED IncLock(c)
               /\ (pc[c] = "clr_lock" /\ ~mu[target[c]]) => ENABLED ClearLock(c)
          /\ \A l \in Limiters :
               (sched[l] = "clr_lock" /\ ~mu[l]) => ENABLED SchedClearLock(l))
    /\ [][/\ \A l \in Limiters :
                ( \/ usedRequests'[l] # usedRequests[l]
                  \/ mu'[l] # mu[l]
                  \/ sched'[l] # sched[l]
                  \/ ticker'[l] # ticker[l] )
                => \A k \in Limiters \ {l} :
                       /\ usedRequests'[k] = usedRequests[k]
                       /\ mu'[k] = mu[k]
                       /\ sched'[k] = sched[k]
                       /\ ticker'[k] = ticker[k]
          /\ \A c \in Callers :
                pc'[c] # pc[c]
                => \A k \in Limiters \ {target'[c]} :
                       /\ usedRequests'[k] = usedRequests[k]
                       /\ mu'[k] = mu[k]
                       /\ sched'[k] = sched[k]
                       /\ ticker'[k] = ticker[k]]_vars

\* The mutex of one limiter is held by a caller, and its scheduler waits for
\* it, while a caller waits in Lock on another limiter whose mutex is free.
C19_Witness ==
    \E l \in Limiters, k \in Limiters :
        /\ l # k
        /\ mu[l] /\ At(l, {"inc_add", "inc_unlock", "clr_write", "clr_unlock"}) # {}
        /\ ~mu[k] /\ At(k, {"inc_lock", "clr_lock"}) # {}
        /\ sched[l] = "clr_lock"

\* C20: a step that changes usedRequests of a limiter either raises it by
\* exactly one, and is the store of an IncrementRequestsUsed call, or is the
\* write of a Clear, by a caller or by the scheduler, and leaves it 0; no
\* other step lowers it.
C20_UsageOnlyGrows ==
    [][\A l \in Limiters :
          usedRequests'[l] # usedRequests[l]
          => \/ /\ usedRequests'[l] = usedRequests[l] + 1
                /\ \E c \in At(l, {"inc_add"}) : pc'[c] = "inc_unlock"
                /\ sched'[l] = sched[l]
             \/ /\ usedRequests'[l] = 0
                /\ \/ \E c \in At(l, {"clr_write"}) : pc'[c] = "clr_unlock"
                   \/ sched[l] = "clr_write" /\ sched'[l] = "clr_unlock"]_vars

\* Both callers have incremented on one limiter and the scheduler's Clear
\* has lowered the positive usage to 0.
C20_Witness ==
    \E l \in Limiters :
        /\ lastClear[l] = "pos"
        /\ usedRequests[l] = 0
        /\ nOk(l) = NumCallers

====
